---- MODULE Spec2Model ----
(***************************************************************************)
(* Model of monthly.py: the monthly billing maintenance service.           *)
(*                                                                         *)
(* One FastAPI application with one handler, perform_monthly_maintenance,  *)
(* which calls MonthlyMaintenanceServer.archive_month_readings: one        *)
(* outbound requests.post, then (on status 200) the computation of the     *)
(* previous month's archive path and an os.path.exists check.              *)
(*                                                                         *)
(* The environment is the wall clock (a date), the file system (the        *)
(* working directory and the files under <cwd>/Archive), the downstream    *)
(* billing service (the outcome of each POST) and the callers.             *)
(***************************************************************************)
EXTENDS Integers, Sequences, FiniteSets, TLC

\* ---------------------------------------------------------------- bounds

\* Number of callers' requests the model follows.
NumInvocations == 2
\* Number of midnights that may pass during a run of the main specification.
MaxTicks == 1
\* The calendar window of the date specification: FirstYear .. FirstYear+NumYears-1.
FirstYear == 2023
NumYears == 2

Invocations == 1 .. NumInvocations

\* ------------------------------------------------------------- constants

\* Python's None.
None == "None"

\* The only status archive_month_readings treats as success (line 49).
HTTP_OK == 200
\* The status of the HTTPException the handler raises (line 93).
HTTP_ERROR == 500

\* Default of MonthlyMaintenanceServer.__init__ (line 32).
DefaultMainApiUrl == "http://localhost:8000"

\* The directory the process was started in.
WorkDir == "/srv/billing"

\* ------------------------------------------------------------- calendar

\* calendar.isleap, as datetime uses it.
IsLeap(y) == (y % 4 = 0) /\ ((y % 100 # 0) \/ (y % 400 = 0))

\* Days of month m of year y, as datetime's _days_in_month.
DaysInMonth(y, m) ==
    IF m = 2 THEN (IF IsLeap(y) THEN 29 ELSE 28)
    ELSE IF m \in {4, 6, 9, 11} THEN 30 ELSE 31

Date(y, m, d) == [year |-> y, month |-> m, day |-> d]

\* datetime + timedelta(days=1): the clock passing midnight.
NextDay(dt) ==
    IF dt.day < DaysInMonth(dt.year, dt.month) THEN Date(dt.year, dt.month, dt.day + 1)
    ELSE IF dt.month < 12 THEN Date(dt.year, dt.month + 1, 1)
    ELSE Date(dt.year + 1, 1, 1)

\* datetime - timedelta(days=1) (line 52).
MinusOneDay(dt) ==
    IF dt.day > 1 THEN Date(dt.year, dt.month, dt.day - 1)
    ELSE IF dt.month > 1 THEN Date(dt.year, dt.month - 1, DaysInMonth(dt.year, dt.month - 1))
    ELSE Date(dt.year - 1, 12, 31)

\* Seeded fault for line 51: the replace(day=1) is forgotten, so that one day
\* is subtracted from the sampled date itself.
ReplaceDay1_forgotten(dt) == dt

\* datetime.replace(day=1) (line 51).
ReplaceDay1(dt) == Date(dt.year, dt.month, 1)

\* strftime's %m and %d: two digits, zero-padded.
TwoDigits(n) == IF n < 10 THEN "0" \o ToString(n) ELSE ToString(n)

\* strftime('%Y-%m') (line 52), for four-digit years.
StrftimeYm(dt) == ToString(dt.year) \o "-" \o TwoDigits(dt.month)

\* datetime.isoformat() (line 88), to the day: the time of day is not modelled.
IsoFormat(dt) == ToString(dt.year) \o "-" \o TwoDigits(dt.month) \o "-" \o TwoDigits(dt.day)

\* Lines 51-52: the previous month of the sampled date, as 'YYYY-MM'.
LastMonth(now) == StrftimeYm(MinusOneDay(ReplaceDay1(now)))

\* os.path.join(cwd, "Archive", f"monthly_{last_month}.csv") (line 53).
ArchivePathOf(dir, ym) == dir \o "/" \o "Archive" \o "/" \o "monthly_" \o ym \o ".csv"

\* ------------------------------------------------------- the collaborators

\* What requests.post can hand back to line 44: a response with a status
\* code and a body, or an exception (requests.exceptions.*).
JsonDetail == [type |-> "object", has_detail |-> TRUE, detail |-> "No readings to archive"]
JsonNoDetail == [type |-> "object", has_detail |-> FALSE, detail |-> None]
JsonArray == [type |-> "array", has_detail |-> FALSE, detail |-> None]
NotJson == [type |-> "text", has_detail |-> FALSE, detail |-> None]

HttpReply(code, body) == [kind |-> "response", status_code |-> code, body |-> body, exc |-> None]
Raised(exc) == [kind |-> "raise", status_code |-> 0, body |-> NotJson, exc |-> exc]
NoReply == [kind |-> "pending", status_code |-> 0, body |-> NotJson, exc |-> None]

PostOutcomes ==
    { HttpReply(200, JsonNoDetail),
      HttpReply(204, NotJson),
      HttpReply(400, JsonDetail),
      HttpReply(500, JsonNoDetail),
      HttpReply(500, JsonArray),
      Raised("ConnectionError"),
      Raised("ReadTimeout") }

\* The dates the main specification starts on: the last day of a year and
\* the day before the last day of February.
StartDates ==
    { Date(FirstYear, 12, 31),
      Date(FirstYear + 1, 2, DaysInMonth(FirstYear + 1, 2) - 1) }

\* ------------------------------------------------------------------ state

VARIABLES
    main_api_url,   \* monthly_server.main_api_url (line 33)
    today,          \* the wall clock's date, what datetime.now() returns
    ticks,          \* midnights passed so far
    cwd,            \* what os.getcwd() returns; None when the directory is gone
    files,          \* the paths os.path.exists finds
    loop,           \* the invocation running on the event loop, 0 when idle
    pc,             \* each invocation's position in the handler
    invoked_on,     \* the date each handler was entered
    posts,          \* the outbound requests each invocation has issued
    wire,           \* what the downstream answered each invocation's POST
    frame,          \* the locals of archive_month_readings
    log,            \* what each invocation gave the logger
    raised,         \* the exception raised while the response was built, if any
    http            \* what each caller got back

vars == <<main_api_url, today, ticks, cwd, files, loop, pc, invoked_on, posts,
          wire, frame, log, raised, http>>

NoDate == Date(0, 0, 0)
NoFrame ==
    [now |-> NoDate, last_month |-> None, expected_file |-> None,
     exists_calls |-> <<>>, found |-> FALSE, ret |-> <<FALSE, None>>]
NoHttp == [status_code |-> 0]

\* ------------------------------------------------- archive_month_readings

\* Line 42.
LogStart == <<"INFO", "Starting monthly archive process">>

\* Seeded fault for lines 65-67: the except clause returns (True, None).
ExceptPath_success(fr, text) ==
    [frame |-> [fr EXCEPT !.ret = <<TRUE, None>>],
     log |-> << <<"ERROR", "Exception during monthly archive process: " \o text>> >>]

\* Lines 65-67: any Exception raised in the try block is logged and turned
\* into (False, None).
ExceptPath(fr, text) ==
    [frame |-> [fr EXCEPT !.ret = <<FALSE, None>>],
     log |-> << <<"ERROR", "Exception during monthly archive process: " \o text>> >>]

\* Line 62: response.json().get('detail', 'Unknown error'). The result is
\* [raises |-> ...]: json() raises on a body that is not JSON, and a JSON
\* value that is no object has no get.
JsonGetDetail(body) ==
    IF body.type = "text" THEN [raises |-> TRUE, value |-> "JSONDecodeError"]
    ELSE IF body.type # "object" THEN [raises |-> TRUE, value |-> "AttributeError"]
    ELSE IF body.has_detail THEN [raises |-> FALSE, value |-> body.detail]
    ELSE [raises |-> FALSE, value |-> "Unknown error"]

\* Seeded fault for lines 58-60: the path is returned although the file was
\* not found.
OnStatusOk_path_unchecked(now, dir, fs) ==
    LET last_month == LastMonth(now)
        fr1 == [NoFrame EXCEPT !.now = now, !.last_month = last_month]
    IN  IF dir = None THEN ExceptPath(fr1, "FileNotFoundError")
        ELSE LET expected_file == ArchivePathOf(dir, last_month)
                 fr2 == [fr1 EXCEPT !.expected_file = expected_file,
                                    !.exists_calls = <<expected_file>>,
                                    !.found = expected_file \in fs]
             IN  [frame |-> [fr2 EXCEPT !.ret = <<TRUE, expected_file>>],
                  log |-> << <<"INFO", "Monthly archive completed successfully. File saved at: "
                                        \o expected_file>> >>]

\* Lines 49-60: the branch taken on status 200, for the date datetime.now()
\* returns, the directory os.getcwd() returns (None: it raises) and the
\* paths that exist.
OnStatusOk(now, dir, fs) ==
    LET last_month == LastMonth(now)
        fr1 == [NoFrame EXCEPT !.now = now, !.last_month = last_month]
    IN  IF dir = None THEN ExceptPath(fr1, "FileNotFoundError")
        ELSE LET expected_file == ArchivePathOf(dir, last_month)
                 found == expected_file \in fs
                 fr2 == [fr1 EXCEPT !.expected_file = expected_file,
                                    !.exists_calls = <<expected_file>>,
                                    !.found = found]
             IN  IF found
                 THEN [frame |-> [fr2 EXCEPT !.ret = <<TRUE, expected_file>>],
                       log |-> << <<"INFO", "Monthly archive completed successfully. File saved at: "
                                             \o expected_file>> >>]
                 ELSE [frame |-> [fr2 EXCEPT !.ret = <<TRUE, None>>],
                       log |-> << <<"WARNING", "Monthly archive completed, but file not found.">> >>]

\* Lines 61-63: the branch taken on any other status.
OnStatusOther(response) ==
    LET detail == JsonGetDetail(response.body)
    IN  IF detail.raises THEN ExceptPath(NoFrame, detail.value)
        ELSE [frame |-> [NoFrame EXCEPT !.ret = <<FALSE, None>>],
              log |-> << <<"ERROR", "Monthly archive failed. Response: " \o detail.value>> >>]

\* Seeded fault for line 49: any 2xx status counts as success (response.ok).
IsSuccessStatus_any_2xx(code) == code \in 200 .. 299

\* Line 49: response.status_code == 200.
IsSuccessStatus(code) == code = HTTP_OK

\* Lines 48-67: archive_month_readings from the moment requests.post returns
\* or raises.
archive_month_readings(response, now, dir, fs) ==
    IF response.kind = "raise" THEN ExceptPath(NoFrame, response.exc)
    ELSE IF IsSuccessStatus(response.status_code) THEN OnStatusOk(now, dir, fs)
    ELSE OnStatusOther(response)

\* ---------------------------------------------- perform_monthly_maintenance

\* Lines 85-90.
MaintenanceResponse(success, archive_path, now) ==
    [status_code |-> HTTP_OK,
     body |-> [success |-> success,
               message |-> IF success THEN "Monthly maintenance completed"
                           ELSE "Error during maintenance",
               timestamp |-> IsoFormat(now),
               archive_path |-> archive_path]]

\* Seeded fault for lines 92-95: the fault's text is left out of the detail.
HTTPException_no_text(text) ==
    [status_code |-> HTTP_ERROR, body |-> [detail |-> "Maintenance process failed"]]

\* Lines 91-95.
HTTPException(text) ==
    [status_code |-> HTTP_ERROR,
     body |-> [detail |-> "Maintenance process failed: " \o text]]

\* The request line 44 sends.
OutboundPost(url) ==
    [method |-> "POST", url |-> url \o "/archive_and_prepare", params |-> "period=monthly"]

\* Seeded fault for line 44: the response is kept on the shared
\* monthly_server instance and set only once, so that every invocation reads
\* the first answer the server ever received.
ReadResponse_shared(i) ==
    LET answered == {j \in Invocations : pc[j] = "done"}
    IN  IF answered = {} THEN wire[i]
        ELSE wire[CHOOSE j \in answered : \A k \in answered : j <= k]

\* Line 44: the value requests.post hands to the local variable response.
ReadResponse(i) == wire[i]

\* ---------------------------------------------------------------- actions

\* The state once the module is imported: monthly_server is built (line 70)
\* and no request has arrived.
InitOn(dates) ==
    /\ main_api_url = DefaultMainApiUrl
    /\ today \in dates
    /\ ticks = 0
    /\ cwd = WorkDir
    /\ files = {}
    /\ loop = 0
    /\ pc = [i \in Invocations |-> "idle"]
    /\ invoked_on = [i \in Invocations |-> NoDate]
    /\ posts = [i \in Invocations |-> <<>>]
    /\ wire = [i \in Invocations |-> NoReply]
    /\ frame = [i \in Invocations |-> NoFrame]
    /\ log = [i \in Invocations |-> <<>>]
    /\ raised = [i \in Invocations |-> None]
    /\ http = [i \in Invocations |-> NoHttp]

Init == InitOn(StartDates)

\* A caller sends POST /perform_monthly_maintenance (line 72); the request
\* waits for the event loop.
Arrive(i) ==
    /\ pc[i] = "idle"
    /\ pc' = [pc EXCEPT ![i] = "queued"]
    /\ UNCHANGED <<main_api_url, today, ticks, cwd, files, loop, invoked_on, posts,
                   wire, frame, log, raised, http>>

\* Lines 73, 82-83, 42-47: the event loop enters the handler, which runs
\* without an await on I/O up to the blocking requests.post. The loop's
\* thread stays inside that call until it returns.
Begin(i) ==
    /\ pc[i] = "queued"
    /\ loop = 0
    /\ loop' = i
    /\ pc' = [pc EXCEPT ![i] = "posting"]
    /\ invoked_on' = [invoked_on EXCEPT ![i] = today]
    /\ log' = [log EXCEPT ![i] = <<LogStart>>]
    /\ posts' = [posts EXCEPT ![i] = Append(@, OutboundPost(main_api_url))]
    /\ UNCHANGED <<main_api_url, today, ticks, cwd, files, wire, frame, raised, http>>

\* The downstream service, handling invocation i's POST, writes an archive
\* file into <cwd>/Archive, named after last month or after this month.
DownstreamArchives(i) ==
    /\ pc[i] = "posting"
    /\ wire[i] = NoReply
    /\ cwd # None
    /\ \E ym \in {LastMonth(today), StrftimeYm(today)} :
          /\ ArchivePathOf(cwd, ym) \notin files
          /\ files' = files \cup {ArchivePathOf(cwd, ym)}
    /\ UNCHANGED <<main_api_url, today, ticks, cwd, loop, pc, invoked_on, posts,
                   wire, frame, log, raised, http>>

\* The downstream service answers invocation i's POST, or the transport fails.
DownstreamReplies(i) ==
    /\ pc[i] = "posting"
    /\ wire[i] = NoReply
    /\ \E o \in PostOutcomes : wire' = [wire EXCEPT ![i] = o]
    /\ UNCHANGED <<main_api_url, today, ticks, cwd, files, loop, pc, invoked_on,
                   posts, frame, log, raised, http>>

\* Lines 48-67 and 83-95: requests.post returns or raises, the rest of
\* archive_month_readings runs, and the handler builds what the caller gets.
\* fault is None, or the text of an exception raised at lines 85-90.
Complete(i, fault) ==
    /\ pc[i] = "posting"
    /\ loop = i
    /\ wire[i] # NoReply
    /\ LET r == archive_month_readings(ReadResponse(i), today, cwd, files)
       IN  /\ frame' = [frame EXCEPT ![i] = r.frame]
           /\ log' = [log EXCEPT ![i] = @ \o r.log]
           /\ raised' = [raised EXCEPT ![i] = fault]
           /\ http' = [http EXCEPT ![i] =
                          IF fault = None
                          THEN MaintenanceResponse(r.frame.ret[1], r.frame.ret[2], today)
                          ELSE HTTPException(fault)]
    /\ pc' = [pc EXCEPT ![i] = "done"]
    /\ loop' = 0
    /\ UNCHANGED <<main_api_url, today, ticks, cwd, files, invoked_on, posts, wire>>

\* Seeded fault for lines 65-67: a transport fault is retried once instead of
\* being terminal.
PostReturns_retry(i) ==
    IF pc[i] = "posting" /\ wire[i].kind = "raise" /\ Len(posts[i]) < 2
    THEN /\ loop = i
         /\ posts' = [posts EXCEPT ![i] = Append(@, OutboundPost(main_api_url))]
         /\ wire' = [wire EXCEPT ![i] = NoReply]
         /\ UNCHANGED <<main_api_url, today, ticks, cwd, files, loop, pc, invoked_on,
                        frame, log, raised, http>>
    ELSE Complete(i, None)

\* The handler's normal return (lines 85-90).
PostReturns(i) == Complete(i, None)

\* The handler's except clause (lines 91-95): building the response raised.
ConstructFails(i) == Complete(i, "MemoryError")

\* Midnight passes.
Tick ==
    /\ ticks < MaxTicks
    /\ ticks' = ticks + 1
    /\ today' = NextDay(today)
    /\ UNCHANGED <<main_api_url, cwd, files, loop, pc, invoked_on, posts, wire,
                   frame, log, raised, http>>

\* The working directory is removed under the running process: os.getcwd()
\* raises FileNotFoundError from then on, and nothing exists below it.
RemoveCwd ==
    /\ cwd # None
    /\ cwd' = None
    /\ files' = {}
    /\ UNCHANGED <<main_api_url, today, ticks, loop, pc, invoked_on, posts, wire,
                   frame, log, raised, http>>

Next ==
    \/ \E i \in Invocations : Arrive(i)
    \/ \E i \in Invocations : Begin(i)
    \/ \E i \in Invocations : DownstreamArchives(i)
    \/ \E i \in Invocations : DownstreamReplies(i)
    \/ \E i \in Invocations : PostReturns(i)
    \/ Tick
    \/ RemoveCwd

Spec == Init /\ [][Next]_vars

\* The same program with the clock and the working directory standing still,
\* and with faults injected where the handler builds its response (lines
\* 85-90), the statements its except clause guards besides the call of
\* archive_month_readings.
NextFault ==
    \/ \E i \in Invocations : Arrive(i)
    \/ \E i \in Invocations : Begin(i)
    \/ \E i \in Invocations : DownstreamArchives(i)
    \/ \E i \in Invocations : DownstreamReplies(i)
    \/ \E i \in Invocations : PostReturns(i)
    \/ \E i \in Invocations : ConstructFails(i)

SpecFault == Init /\ [][NextFault]_vars

\* The same program on every date of the calendar window, the clock standing
\* still: what lines 51-53 compute on each day.
CalendarDates ==
    { Date(y, m, d) : y \in FirstYear .. (FirstYear + NumYears - 1), m \in 1 .. 12, d \in 1 .. 31 }

ValidDates == { dt \in CalendarDates : dt.day <= DaysInMonth(dt.year, dt.month) }

InitDate == InitOn(ValidDates)

NextDate ==
    \/ Arrive(1)
    \/ Begin(1)
    \/ DownstreamArchives(1)
    \/ DownstreamReplies(1)
    \/ PostReturns(1)

SpecDate == InitDate /\ [][NextDate]_vars

\* ------------------------------------------------------------ properties

\* The calendar month before the month of dt, taken from the calendar alone.
PreviousCalendarMonth(dt) ==
    IF dt.month = 1 THEN [year |-> dt.year - 1, month |-> 12]
    ELSE [year |-> dt.year, month |-> dt.month - 1]

MonthText ==
    <<"01", "02", "03", "04", "05", "06", "07", "08", "09", "10", "11", "12">>

\* monthly_<Y>-<M>.csv for the calendar month before dt.
ArchiveNameBefore(dt) ==
    LET p == PreviousCalendarMonth(dt)
    IN  "monthly_" \o ToString(p.year) \o "-" \o MonthText[p.month] \o ".csv"

\* <cwd>/Archive/monthly_<previous-month>.csv for the process's directory.
ArchivePathBefore(dt) == WorkDir \o "/Archive/" \o ArchiveNameBefore(dt)

Done(i) == pc[i] = "done"
Got200(i) == wire[i].kind = "response" /\ wire[i].status_code = 200
GotOtherStatus(i) == wire[i].kind = "response" /\ wire[i].status_code # 200
GotFault(i) == wire[i].kind = "raise"
NormalResponse(i) == http[i].status_code = 200

\* C1 (as stated): whenever the downstream POST returned 200, the caller gets
\* success=true, and archive_path is <cwd>/Archive/monthly_<previous-month>.csv
\* if os.path.exists found that file and null if it did not.
C1_Status200GivesSuccess ==
    \A i \in Invocations :
        (Done(i) /\ Got200(i)) =>
            /\ NormalResponse(i)
            /\ http[i].body.success = TRUE
            /\ http[i].body.archive_path =
                  IF frame[i].found THEN ArchivePathBefore(frame[i].now) ELSE None

\* C2: a downstream status other than 200 (another 2xx included, whatever the
\* body) gives the caller a normal response with success=false, the fixed
\* failure message and archive_path=null, never an HTTP 500.
C2_OtherStatusGivesFailure ==
    \A i \in Invocations :
        (Done(i) /\ GotOtherStatus(i)) =>
            /\ NormalResponse(i)
            /\ http[i].body.success = FALSE
            /\ http[i].body.message = "Error during maintenance"
            /\ http[i].body.archive_path = None

\* C2 witness: one invocation answered 204 with a body that is not JSON and
\* another answered 500 with a JSON array have both completed.
C2_Witness ==
    \E i, j \in Invocations :
        /\ Done(i) /\ wire[i].status_code = 204 /\ wire[i].body.type = "text"
        /\ Done(j) /\ wire[j].status_code = 500 /\ wire[j].body.type = "array"

\* C3: when requests.post raises, the caller gets a normal response with
\* success=false and archive_path=null, and os.path.exists is never called.
C3_TransportFaultGivesFailure ==
    \A i \in Invocations :
        (Done(i) /\ GotFault(i)) =>
            /\ NormalResponse(i)
            /\ http[i].body.success = FALSE
            /\ http[i].body.archive_path = None
            /\ frame[i].exists_calls = <<>>
            /\ frame[i].expected_file = None

\* C3 witness: a connection fault and a timeout have both been handled.
C3_Witness ==
    \E i, j \in Invocations :
        /\ Done(i) /\ GotFault(i) /\ wire[i].exc = "ConnectionError"
        /\ Done(j) /\ GotFault(j) /\ wire[j].exc = "ReadTimeout"

\* C4: on whatever date the clock is sampled, the file looked for is
\* monthly_<Y>-<M>.csv of the previous calendar month, two-digit month,
\* December of the year before for any day of January.
C4_FilenameIsPreviousMonth ==
    \A i \in Invocations :
        (frame[i].now # NoDate /\ frame[i].expected_file # None) =>
            /\ frame[i].last_month =
                  ToString(PreviousCalendarMonth(frame[i].now).year) \o "-"
                      \o MonthText[PreviousCalendarMonth(frame[i].now).month]
            /\ frame[i].expected_file = ArchivePathBefore(frame[i].now)
            /\ frame[i].exists_calls = <<ArchivePathBefore(frame[i].now)>>

\* C4 witness: the clock was sampled on 31 January and the file looked for
\* is December's of the year before.
C4_Witness ==
    \E i \in Invocations :
        /\ frame[i].now.month = 1 /\ frame[i].now.day = 31
        /\ frame[i].exists_calls =
              <<WorkDir \o "/Archive/monthly_" \o ToString(frame[i].now.year - 1) \o "-12.csv">>

\* C5 (as stated): the month looked for is the calendar month before the
\* date on which the handler was invoked, however long the outbound call took.
C5_PeriodOfInvocationDate ==
    \A i \in Invocations :
        frame[i].expected_file # None =>
            frame[i].expected_file = ArchivePathBefore(invoked_on[i])

\* C6: an invocation that has entered the handler has issued exactly one
\* POST to {main_api_url}/archive_and_prepare with period=monthly, whatever
\* the outcome, and one that has not has issued none.
C6_ExactlyOnePost ==
    \A i \in Invocations :
        /\ pc[i] \in {"idle", "queued"} => posts[i] = <<>>
        /\ pc[i] \in {"posting", "done"} =>
              posts[i] = << [method |-> "POST",
                             url |-> "http://localhost:8000/archive_and_prepare",
                             params |-> "period=monthly"] >>

\* C6 witness: a transport fault and a non-200 status have both been
\* handled to the end.
C6_Witness ==
    \E i, j \in Invocations :
        /\ Done(i) /\ GotFault(i)
        /\ Done(j) /\ GotOtherStatus(j)

\* What invocation i saw for itself: its own POST's outcome, and the result
\* of its own calls of os.getcwd and os.path.exists.
OwnSuccess(i) == Got200(i) /\ frame[i].expected_file # None
OwnArchivePath(i) ==
    IF OwnSuccess(i) /\ frame[i].found THEN frame[i].exists_calls[1] ELSE None

\* C7: in any interleaving, each response's success, message and
\* archive_path follow from that invocation's own outcome and own file check,
\* and monthly_server.main_api_url keeps the value it was constructed with.
C7_ResponsesIndependent ==
    /\ main_api_url = "http://localhost:8000"
    /\ \A i \in Invocations :
          Done(i) =>
              /\ NormalResponse(i)
              /\ http[i].body.success = OwnSuccess(i)
              /\ http[i].body.message =
                    IF OwnSuccess(i) THEN "Monthly maintenance completed"
                    ELSE "Error during maintenance"
              /\ http[i].body.archive_path = OwnArchivePath(i)

\* C7 witness: two invocations have completed with different outcomes, one
\* with the file found and one with a transport fault.
C7_Witness ==
    \E i, j \in Invocations :
        /\ Done(i) /\ Got200(i) /\ http[i].body.archive_path # None
        /\ Done(j) /\ GotFault(j) /\ http[j].body.success = FALSE

\* C8: archive_path is non-null only when the invocation's POST returned 200
\* and os.path.exists found the file; so a path implies success=true, and
\* success=false implies no path.
C8_PathOnlyWhenFound ==
    \A i \in Invocations :
        NormalResponse(i) =>
            /\ http[i].body.archive_path # None =>
                  (Got200(i) /\ frame[i].found /\ http[i].body.success = TRUE)
            /\ http[i].body.success = FALSE => http[i].body.archive_path = None

\* C8 witness: one response carries a path, and another reports success
\* without one because the file was not there.
C8_Witness ==
    \E i, j \in Invocations :
        /\ NormalResponse(i) /\ http[i].body.archive_path # None
        /\ NormalResponse(j) /\ http[j].body.success = TRUE
        /\ http[j].body.archive_path = None

\* C9 (as stated): while one invocation waits for its POST, nothing keeps
\* another invocation that has arrived from entering the handler.
C9_NoMutualExclusion ==
    \A i, j \in Invocations :
        (i # j /\ pc[i] = "posting" /\ pc[j] = "queued") => ENABLED Begin(j)

\* C10: a fault raised while the response is built reaches the caller as
\* HTTP 500 with detail 'Maintenance process failed: <fault text>', and HTTP
\* 500 is the outcome of such a fault only: never of a non-200 status, a
\* transport fault or a missing file.
C10_Http500OnlyOnConstructionFault ==
    \A i \in Invocations :
        Done(i) =>
            IF raised[i] # None
            THEN http[i] = [status_code |-> 500,
                            body |-> [detail |-> "Maintenance process failed: " \o raised[i]]]
            ELSE http[i].status_code = 200

\* C10 witness: one caller got the HTTP 500, and callers whose POST failed or
\* whose file was missing got normal responses.
C10_Witness ==
    \E i, j \in Invocations :
        /\ Done(i) /\ raised[i] = "MemoryError" /\ http[i].status_code = 500
        /\ Done(j) /\ raised[j] = None /\ ~Got200(j) /\ http[j].status_code = 200

====
